---- MODULE Spec2Model ----
(***************************************************************************)
(* Model of src/elements.py: Signal_information, Node, Line and Network.   *)
(*                                                                         *)
(* Units.  The source computes with floats; the model computes with exact  *)
(* integers in scaled units, chosen so that every value the model reaches  *)
(* is a whole number:                                                      *)
(*   - positions are grid points whose pairwise distances are whole        *)
(*     (0, 3, 4, 5), so math.hypot is exact on them;                       *)
(*   - latency is held in nanoseconds, with c in metres per microsecond;   *)
(*   - noise_power is held in units of 1e-9 (the factor of                 *)
(*     noise_generation), signal_power in units of 1.                      *)
(* Float rounding is outside the model.                                    *)
(*                                                                         *)
(* References.  A Node object is named by its key in Network.nodes (the    *)
(* code never replaces a Node).  A Line object is named by the id it got   *)
(* when Line(...) was called; Node.successive holds such ids.              *)
(*                                                                         *)
(* Calls.  The program is single-threaded: a propagation runs to its end   *)
(* (pc "returned" or "raised") before the caller makes its next call, and  *)
(* its steps are the Node.propagate and Line.propagate calls of the        *)
(* recursion.  A KeyError is the outcome "raised"; nothing in the source   *)
(* catches it.  The caller holds one signal and one find_paths result at a *)
(* time and calls connect() between uses, when it holds neither.           *)
(*                                                                         *)
(* Lists.  A Python list is an object: pop(0) on it is seen through every  *)
(* reference to it.  The lists that matter are the paths of a find_paths   *)
(* result, which the caller holds and may pass to Signal_information(...); *)
(* "passed" names the one passed and path_is_copy says whether the         *)
(* signal's path is another object than it.                                *)
(*                                                                         *)
(* Descriptions.  An entry's "label" repeats its key, as setdefault leaves *)
(* it when the entry has none.                                             *)
(***************************************************************************)
EXTENDS Integers, Sequences, FiniteSets, TLC

VARIABLES
    description,   \* the topology description handed to Network.__init__
    built,         \* TRUE once Network.__init__ has run
    nodes,         \* Network.nodes : key -> Node
    lines,         \* Network.lines : key -> Line
    nextId,        \* number of Line objects constructed so far
    reconnected,   \* TRUE when the last call made was a connect() that followed a connect()
    connectState,  \* how the last connect() ended: "none" (not called), "returned", "raised"
    sig,           \* the caller's Signal_information, or NoSignal
    sig0,          \* the signal as it was when Network.propagate was entered
    pc,            \* position of the propagation: idle, node, line, returned, raised
    cur,           \* key of the Node / Line whose propagate() is running
    visits,        \* Node.propagate and Line.propagate calls made by the current propagation
    found,         \* outcome of the caller's last find_paths call, its lists held by the caller
    passed         \* which list of found.paths the caller passed to Signal_information(...):
                   \* its index, or 0 for a list the caller holds nowhere else

vars == <<description, built, nodes, lines, nextId, connectState, reconnected,
          sig, sig0, pc, cur, visits, found, passed>>

-----------------------------------------------------------------------------
(* Bounds and input sets *)

MaxEdges == 3      \* most connected_nodes entries of a description, over all its nodes
MaxPath == 3       \* longest signal path handed to Signal_information

\* Labels of the descriptions; "A"+"BA" and "AB"+"A" concatenate to the same text.
Labels == {"A", "AB", "BA"}
\* The order in which a description lists its entries (dict order).
LabelOrder == <<"A", "AB", "BA">>
\* Where a description puts each label.
LabelPosition == [l \in Labels |->
                    CASE l = "A" -> <<0, 0>> [] l = "AB" -> <<0, 3>> [] l = "BA" -> <<4, 0>>]
\* The signal_power a caller gives a signal: the constructor takes any float.
Powers == {-1, 2}

NoSignal == [signal_power |-> 0, noise_power |-> 0, latency |-> 0, path |-> <<"-">>,
             path_is_copy |-> TRUE, live |-> FALSE]
NoVisits == [node |-> 0, line |-> 0]
NoResult == [outcome |-> "none", paths |-> <<>>, start |-> "", end |-> ""]
EmptyDict == <<>>

Range(s) == {s[i] : i \in DOMAIN s}

RECURSIVE SumSeq(_)
SumSeq(s) == IF s = <<>> THEN 0 ELSE Head(s) + SumSeq(Tail(s))

\* Sequences over S of length at most n.
BoundedSeq(S, n) == UNION {[1..m -> S] : m \in 0..n}
\* Lists without a repeated element.
Injective(s) == \A i, j \in DOMAIN s : s[i] = s[j] => i = j

-----------------------------------------------------------------------------
(* Signal_information *)

Signal_informationSharing(signal_power, path) ==
    [signal_power |-> signal_power, noise_power |-> 0, latency |-> 0, path |-> path,
     path_is_copy |-> FALSE, live |-> TRUE]

\* self.path = list(path) is a list object of the signal's own, equal to the
\* argument; path_is_copy tells it from the argument itself.
Signal_information(signal_power, path) ==
    [signal_power |-> signal_power, noise_power |-> 0, latency |-> 0, path |-> path,
     path_is_copy |-> TRUE, live |-> TRUE]

update_signal_power(s, increment) == [s EXCEPT !.signal_power = @ + increment]

update_noise_power(s, increment) == [s EXCEPT !.noise_power = @ + increment]

update_latency(s, increment) == [s EXCEPT !.latency = @ + increment]

update_pathKeepAll(s) == s

update_pathKeepLast(s) ==
    IF Len(s.path) > 1 THEN [s EXCEPT !.path = Tail(@)] ELSE s

update_path(s) ==
    IF s.path # <<>> THEN [s EXCEPT !.path = Tail(@)] ELSE s

-----------------------------------------------------------------------------
(* Node and Line *)

Node(node_dict) ==
    [label |-> node_dict.label, position |-> node_dict.position,
     connected_nodes |-> node_dict.connected_nodes, successive |-> EmptyDict]

Line(label, length, id) ==
    [label |-> label, length |-> length, successive |-> EmptyDict, id |-> id]

c == 300
v == (2 * c) \div 3

\* length / v, in nanoseconds (v is in metres per microsecond).
latency_generation(line) == (line.length * 1000) \div v

\* 1e-9 * signal_power * length, in units of 1e-9.
noise_generation(line, signal_power) == signal_power * line.length

Abs(x) == IF x < 0 THEN -x ELSE x

hypotManhattan(dx, dy) == Abs(dx) + Abs(dy)

\* math.hypot on the grid points of the descriptions.
hypot(dx, dy) == CHOOSE r \in 0..(Abs(dx) + Abs(dy)) : r * r = dx * dx + dy * dy

\* The key in Network.lines of the Line object with this id.
LineKey(L, id) == CHOOSE k \in DOMAIN L : L[k].id = id

-----------------------------------------------------------------------------
(* Network.__init__ and Network.connect *)

\* self.nodes after the constructor's loop: one Node per entry, none rejected.
BuildNodes(desc) == [k \in DOMAIN desc.entries |-> Node(desc.entries[k])]

\* The (a_label, b_label) pairs in the order connect()'s nested loops visit them.
RECURSIVE Adjacencies(_, _)
Adjacencies(N, order) ==
    IF order = <<>> THEN <<>>
    ELSE LET a == Head(order)
             cn == N[a].connected_nodes
         IN  [i \in 1..Len(cn) |-> <<a, cn[i]>>] \o Adjacencies(N, Tail(order))

Distance(N, a, b) ==
    hypot(N[b].position[1] - N[a].position[1], N[b].position[2] - N[a].position[2])

AddLineAlways(L, ab, length, id) ==
    [lines |-> (ab :> Line(ab, length, id)) @@ L, nextId |-> id + 1]

\* if ab not in self.lines: self.lines[ab] = Line(ab, length)
AddLine(L, ab, length, id) ==
    IF ab \notin DOMAIN L
    THEN [lines |-> (ab :> Line(ab, length, id)) @@ L, nextId |-> id + 1]
    ELSE [lines |-> L, nextId |-> id]

\* First loop of connect(): self.nodes[b_label] raises KeyError on a label that
\* is no key of self.nodes, and the lines created before it stay.
RECURSIVE CreateLines(_, _, _, _)
CreateLines(N, pairs, L, id) ==
    IF pairs = <<>> THEN [lines |-> L, nextId |-> id, raised |-> FALSE]
    ELSE LET a == pairs[1][1]
             b == pairs[1][2]
         IN  IF b \notin DOMAIN N
             THEN [lines |-> L, nextId |-> id, raised |-> TRUE]
             ELSE LET r == AddLine(L, a \o b, Distance(N, a, b), id)
                  IN  CreateLines(N, Tail(pairs), r.lines, r.nextId)

\* Second loop of connect(): node_a.successive[ab] = line_ab and
\* line_ab.successive[b_label] = self.nodes[b_label].
RECURSIVE WireAll(_, _, _), WireAllNodesOnly(_, _, _)
WireAllNodesOnly(N, L, pairs) ==
    IF pairs = <<>> THEN [nodes |-> N, lines |-> L]
    ELSE LET a == pairs[1][1]
             b == pairs[1][2]
             ab == a \o b
         IN  WireAllNodesOnly([N EXCEPT ![a].successive = (ab :> L[ab].id) @@ @],
                              L, Tail(pairs))

WireAll(N, L, pairs) ==
    IF pairs = <<>> THEN [nodes |-> N, lines |-> L]
    ELSE LET a == pairs[1][1]
             b == pairs[1][2]
             ab == a \o b
         IN  WireAll([N EXCEPT ![a].successive = (ab :> L[ab].id) @@ @],
                     [L EXCEPT ![ab].successive = (b :> b) @@ @],
                     Tail(pairs))

\* The whole of connect(): the network it leaves and how it ended.
connect(N, L, id, order) ==
    LET pairs == Adjacencies(N, order)
        made == CreateLines(N, pairs, L, id)
    IN  IF made.raised
        THEN [nodes |-> N, lines |-> made.lines, nextId |-> made.nextId,
              outcome |-> "raised"]
        ELSE LET wired == WireAll(N, made.lines, pairs)
             IN  [nodes |-> wired.nodes, lines |-> wired.lines, nextId |-> made.nextId,
                  outcome |-> "returned"]

-----------------------------------------------------------------------------
(* Network.find_paths *)

Returned(paths) == [raised |-> FALSE, paths |-> paths]
Raised == [raised |-> TRUE, paths |-> <<>>]

\* dfs(curr, path) and its for loop from neighbour i on; self.nodes[curr] raises
\* KeyError when curr is no key of self.nodes.
RECURSIVE dfs(_, _, _, _), dfsLoop(_, _, _, _, _), dfsLoopLastFirst(_, _, _, _, _)
dfsAfterAHop(N, end, curr, path) ==
    IF curr = end /\ Len(path) > 1 THEN Returned(<<path>>)
    ELSE IF curr \notin DOMAIN N THEN Raised
    ELSE dfsLoop(N, end, N[curr].connected_nodes, path, 1)

dfs(N, end, curr, path) ==
    IF curr = end THEN Returned(<<path>>)
    ELSE IF curr \notin DOMAIN N THEN Raised
    ELSE dfsLoop(N, end, N[curr].connected_nodes, path, 1)

dfsLoopLastFirst(N, end, cn, path, i) ==
    IF i > Len(cn) THEN Returned(<<>>)
    ELSE LET nxt == cn[i]
             first == IF nxt \notin Range(path)
                      THEN dfs(N, end, nxt, Append(path, nxt))
                      ELSE Returned(<<>>)
         IN  IF first.raised THEN Raised
             ELSE LET rest == dfsLoopLastFirst(N, end, cn, path, i + 1)
                  IN  IF rest.raised THEN Raised
                      ELSE Returned(rest.paths \o first.paths)

dfsLoop(N, end, cn, path, i) ==
    IF i > Len(cn) THEN Returned(<<>>)
    ELSE LET nxt == cn[i]
             first == IF nxt \notin Range(path)
                      THEN dfs(N, end, nxt, Append(path, nxt))
                      ELSE Returned(<<>>)
         IN  IF first.raised THEN Raised
             ELSE LET rest == dfsLoop(N, end, cn, path, i + 1)
                  IN  IF rest.raised THEN Raised
                      ELSE Returned(first.paths \o rest.paths)

find_paths(N, start, end) ==
    IF start \notin DOMAIN N \/ end \notin DOMAIN N THEN Returned(<<>>)
    ELSE dfs(N, end, start, <<start>>)

-----------------------------------------------------------------------------
(* The descriptions a run may start from *)

\* The connected_nodes lists: no label twice.
AdjacencyLists == {s \in BoundedSeq(Labels, Cardinality(Labels)) : Injective(s)}

EdgeCount(K, cn) == SumSeq([i \in 1..Len(LabelOrder) |->
                              IF LabelOrder[i] \in K THEN Len(cn[LabelOrder[i]]) ELSE 0])

\* The connected_nodes of the entries with keys K: at most MaxEdges labels in all.
Adjacency(K) ==
    {cn \in [Labels -> AdjacencyLists] :
        /\ \A l \in Labels \ K : cn[l] = <<>>
        /\ EdgeCount(K, cn) <= MaxEdges}

Descriptions ==
    UNION {{[order |-> SelectSeq(LabelOrder, LAMBDA l : l \in K),
             entries |-> [k \in K |-> [label |-> k, position |-> LabelPosition[k],
                                       connected_nodes |-> cn[k]]]] :
               cn \in Adjacency(K)} : K \in SUBSET Labels}

\* The description of the worked example: A(0,0), B(0,3), C(4,0), A<->B, B<->C.
RoundTripDescription ==
    [order |-> <<"A", "B", "C">>,
     entries |-> [k \in {"A", "B", "C"} |->
        [label |-> k,
         position |-> CASE k = "A" -> <<0, 0>> [] k = "B" -> <<0, 3>> [] k = "C" -> <<4, 0>>,
         connected_nodes |-> CASE k = "A" -> <<"B">> [] k = "B" -> <<"A", "C">>
                               [] k = "C" -> <<"B">>]]]
\* The labels and powers a caller of the worked example uses; "D" is no node of it.
RoundTripLabels == {"A", "B", "C", "D"}
RoundTripPowers == {1, 2}

Idle == pc \in {"idle", "returned", "raised"}

\* self.path.pop(0) changes the list object self.path in place: when that object
\* is the list the caller passed, the caller's list is the shortened one too.
FoundAfter(s) ==
    IF s.path_is_copy \/ passed = 0 THEN found
    ELSE [found EXCEPT !.paths[passed] = s.path]

-----------------------------------------------------------------------------
(* Actions *)

Init ==
    /\ description \in Descriptions
    /\ built = FALSE
    /\ nodes = EmptyDict
    /\ lines = EmptyDict
    /\ nextId = 0
    /\ reconnected = FALSE
    /\ connectState = "none"
    /\ sig = NoSignal
    /\ sig0 = NoSignal
    /\ pc = "idle"
    /\ cur = ""
    /\ visits = NoVisits
    /\ found = NoResult
    /\ passed = 0

\* Network.__init__
Build ==
    /\ ~built
    /\ built' = TRUE
    /\ nodes' = BuildNodes(description)
    /\ UNCHANGED <<description, lines, nextId, connectState, reconnected,
                   sig, sig0, pc, cur, visits, found, passed>>

\* Network.connect, called while the caller holds no signal and no result.
Connect ==
    /\ built
    /\ ~sig.live
    /\ found = NoResult
    /\ LET r == connect(nodes, lines, nextId, description.order)
       IN  /\ nodes' = r.nodes
           /\ lines' = r.lines
           /\ nextId' = r.nextId
           /\ connectState' = r.outcome
    /\ reconnected' = (connectState # "none")
    /\ UNCHANGED <<description, built, sig, sig0, pc, cur, visits, found, passed>>

\* Network.find_paths, called by a caller that holds nothing yet.
FindPathsOver(labels) ==
    /\ built
    /\ ~sig.live
    /\ found = NoResult
    /\ \E start \in labels, end \in labels :
         LET r == find_paths(nodes, start, end)
         IN  found' = [outcome |-> IF r.raised THEN "raised" ELSE "returned",
                       paths |-> r.paths, start |-> start, end |-> end]
    /\ reconnected' = FALSE
    /\ UNCHANGED <<description, built, nodes, lines, nextId, connectState,
                   sig, sig0, pc, cur, visits, passed>>

\* Signal_information.__init__ on a path of the caller's choice.
NewSignalWith(powers, labels) ==
    /\ built
    /\ ~sig.live
    /\ found = NoResult
    /\ \E p \in powers, path \in BoundedSeq(labels, MaxPath) :
         sig' = Signal_information(p, path)
    /\ passed' = 0
    /\ reconnected' = FALSE
    /\ UNCHANGED <<description, built, nodes, lines, nextId, connectState,
                   sig0, pc, cur, visits, found>>

\* Signal_information.__init__ on one of the paths find_paths returned.
NewSignalOnFoundWith(powers) ==
    /\ built
    /\ ~sig.live
    /\ found.outcome = "returned"
    /\ \E p \in powers, i \in DOMAIN found.paths :
         /\ sig' = Signal_information(p, found.paths[i])
         /\ passed' = i
    /\ reconnected' = FALSE
    /\ UNCHANGED <<description, built, nodes, lines, nextId, connectState,
                   sig0, pc, cur, visits, found>>

\* The caller lets go of what it holds: its signal, or else its find_paths result.
Discard ==
    /\ Idle
    /\ sig.live \/ found # NoResult
    /\ sig' = NoSignal
    /\ sig0' = NoSignal
    /\ pc' = "idle"
    /\ cur' = ""
    /\ visits' = NoVisits
    /\ found' = IF sig.live THEN found ELSE NoResult
    /\ passed' = 0
    /\ reconnected' = FALSE
    /\ UNCHANGED <<description, built, nodes, lines, nextId, connectState>>

NetworkPropagateLenient ==
    /\ sig.live
    /\ Idle
    /\ sig0' = sig
    /\ visits' = NoVisits
    /\ IF sig.path = <<>> \/ sig.path[1] \notin DOMAIN nodes
       THEN pc' = "returned" /\ cur' = ""
       ELSE pc' = "node" /\ cur' = sig.path[1]
    /\ reconnected' = FALSE
    /\ UNCHANGED <<description, built, nodes, lines, nextId, connectState,
                   sig, found, passed>>

NetworkPropagateUnguarded ==
    /\ sig.live
    /\ Idle
    /\ sig0' = sig
    /\ visits' = NoVisits
    /\ IF sig.path = <<>> \/ sig.path[1] \notin DOMAIN nodes
       THEN pc' = "raised" /\ cur' = ""
       ELSE pc' = "node" /\ cur' = sig.path[1]
    /\ reconnected' = FALSE
    /\ UNCHANGED <<description, built, nodes, lines, nextId, connectState,
                   sig, found, passed>>

\* Network.propagate up to its call of Node.propagate; self.nodes[start_label]
\* raises KeyError on a label that is no key of self.nodes.
NetworkPropagate ==
    /\ sig.live
    /\ Idle
    /\ sig0' = sig
    /\ visits' = NoVisits
    /\ IF sig.path = <<>>
       THEN pc' = "returned" /\ cur' = ""
       ELSE IF sig.path[1] \notin DOMAIN nodes
            THEN pc' = "raised" /\ cur' = ""
            ELSE pc' = "node" /\ cur' = sig.path[1]
    /\ reconnected' = FALSE
    /\ UNCHANGED <<description, built, nodes, lines, nextId, connectState,
                   sig, found, passed>>

NodePropagateSilent ==
    /\ pc = "node"
    /\ visits' = [visits EXCEPT !.node = @ + 1]
    /\ LET s == update_path(sig)
       IN  /\ sig' = s
           /\ found' = FoundAfter(s)
           /\ IF s.path # <<>>
              THEN LET line_key == nodes[cur].label \o s.path[1]
                   IN  IF line_key \in DOMAIN nodes[cur].successive
                       THEN /\ pc' = "line"
                            /\ cur' = LineKey(lines, nodes[cur].successive[line_key])
                       ELSE pc' = "returned" /\ cur' = ""
              ELSE pc' = "returned" /\ cur' = ""
    /\ UNCHANGED <<description, built, nodes, lines, nextId, connectState, reconnected,
                   sig0, passed>>

NodePropagateUnwiring ==
    /\ pc = "node"
    /\ visits' = [visits EXCEPT !.node = @ + 1]
    /\ LET s == update_path(sig)
       IN  /\ sig' = s
           /\ found' = FoundAfter(s)
           /\ IF s.path # <<>>
              THEN LET line_key == nodes[cur].label \o s.path[1]
                   IN  IF line_key \in DOMAIN nodes[cur].successive
                       THEN /\ pc' = "line"
                            /\ cur' = LineKey(lines, nodes[cur].successive[line_key])
                            /\ nodes' = [nodes EXCEPT ![cur].successive =
                                            [k \in DOMAIN @ \ {line_key} |-> @[k]]]
                       ELSE pc' = "raised" /\ cur' = "" /\ nodes' = nodes
              ELSE pc' = "returned" /\ cur' = "" /\ nodes' = nodes
    /\ UNCHANGED <<description, built, lines, nextId, connectState, reconnected,
                   sig0, passed>>

\* Node.propagate up to its call of Line.propagate (or its return);
\* self.successive[line_key] raises KeyError on a key it does not hold.
NodePropagate ==
    /\ pc = "node"
    /\ visits' = [visits EXCEPT !.node = @ + 1]
    /\ LET s == update_path(sig)
       IN  /\ sig' = s
           /\ found' = FoundAfter(s)
           /\ IF s.path # <<>>
              THEN LET line_key == nodes[cur].label \o s.path[1]
                   IN  IF line_key \in DOMAIN nodes[cur].successive
                       THEN /\ pc' = "line"
                            /\ cur' = LineKey(lines, nodes[cur].successive[line_key])
                       ELSE pc' = "raised" /\ cur' = ""
              ELSE pc' = "returned" /\ cur' = ""
    /\ UNCHANGED <<description, built, nodes, lines, nextId, connectState, reconnected,
                   sig0, passed>>

LinePropagateAttenuating ==
    /\ pc = "line"
    /\ visits' = [visits EXCEPT !.line = @ + 1]
    /\ LET line == lines[cur]
           s == update_signal_power(
                  update_noise_power(update_latency(sig, latency_generation(line)),
                                     noise_generation(line, sig.signal_power)),
                  -1)
       IN  /\ sig' = s
           /\ IF s.path # <<>>
              THEN IF s.path[1] \in DOMAIN line.successive
                   THEN pc' = "node" /\ cur' = line.successive[s.path[1]]
                   ELSE pc' = "raised" /\ cur' = ""
              ELSE pc' = "returned" /\ cur' = ""
    /\ UNCHANGED <<description, built, nodes, lines, nextId, connectState, reconnected,
                   sig0, found, passed>>

LinePropagateAdvancing ==
    /\ pc = "line"
    /\ visits' = [visits EXCEPT !.line = @ + 1]
    /\ LET line == lines[cur]
           s == update_path(
                  update_noise_power(update_latency(sig, latency_generation(line)),
                                     noise_generation(line, sig.signal_power)))
       IN  /\ sig' = s
           /\ found' = FoundAfter(s)
           /\ IF s.path # <<>>
              THEN IF s.path[1] \in DOMAIN line.successive
                   THEN pc' = "node" /\ cur' = line.successive[s.path[1]]
                   ELSE pc' = "raised" /\ cur' = ""
              ELSE pc' = "returned" /\ cur' = ""
    /\ UNCHANGED <<description, built, nodes, lines, nextId, connectState, reconnected,
                   sig0, passed>>

\* Line.propagate up to its call of Node.propagate (or its return);
\* self.successive[next_node_label] raises KeyError on a label it does not hold.
LinePropagate ==
    /\ pc = "line"
    /\ visits' = [visits EXCEPT !.line = @ + 1]
    /\ LET line == lines[cur]
           s == update_noise_power(update_latency(sig, latency_generation(line)),
                                   noise_generation(line, sig.signal_power))
       IN  /\ sig' = s
           /\ IF s.path # <<>>
              THEN IF s.path[1] \in DOMAIN line.successive
                   THEN pc' = "node" /\ cur' = line.successive[s.path[1]]
                   ELSE pc' = "raised" /\ cur' = ""
              ELSE pc' = "returned" /\ cur' = ""
    /\ UNCHANGED <<description, built, nodes, lines, nextId, connectState, reconnected,
                   sig0, found, passed>>

FindPaths == FindPathsOver(Labels)
NewSignal == NewSignalWith(Powers, Labels)
NewSignalOnFound == NewSignalOnFoundWith(Powers)

Next ==
    \/ Build
    \/ Connect
    \/ FindPaths
    \/ NewSignal
    \/ NewSignalOnFound
    \/ Discard
    \/ NetworkPropagate
    \/ NodePropagate
    \/ LinePropagate

Spec == Init /\ [][Next]_vars

(* The worked example: the same operations on the one description above. *)

InitRoundTrip ==
    /\ description = RoundTripDescription
    /\ built = FALSE
    /\ nodes = EmptyDict
    /\ lines = EmptyDict
    /\ nextId = 0
    /\ reconnected = FALSE
    /\ connectState = "none"
    /\ sig = NoSignal
    /\ sig0 = NoSignal
    /\ pc = "idle"
    /\ cur = ""
    /\ visits = NoVisits
    /\ found = NoResult
    /\ passed = 0

FindPathsRoundTrip == FindPathsOver(RoundTripLabels)
NewSignalRoundTrip == NewSignalWith(RoundTripPowers, RoundTripLabels)
NewSignalOnFoundRoundTrip == NewSignalOnFoundWith(RoundTripPowers)

NextRoundTrip ==
    \/ Build
    \/ Connect
    \/ FindPathsRoundTrip
    \/ NewSignalRoundTrip
    \/ NewSignalOnFoundRoundTrip
    \/ Discard
    \/ NetworkPropagate
    \/ NodePropagate
    \/ LinePropagate

SpecRoundTrip == InitRoundTrip /\ [][NextRoundTrip]_vars

(* Network.propagate is one synchronous call chain: once it has been called,  *)
(* the calls of Node.propagate and Line.propagate follow without the caller   *)
(* doing anything, so a step of either that can be taken is taken.            *)
SpecFair == Spec /\ WF_vars(NodePropagate) /\ WF_vars(LinePropagate)

-----------------------------------------------------------------------------
(* Vocabulary of the properties *)

\* A Network.propagate call has ended, by returning or by raising.
Finished == sig0.live /\ pc \in {"returned", "raised"}

\* The call was made on a signal as its constructor leaves it.
Fresh == sig0.noise_power = 0 /\ sig0.latency = 0

\* Euclidean distance between two grid points, from its definition.
EuclideanDistance(p, q) ==
    CHOOSE r \in 0..10 : r * r = (q[1] - p[1]) * (q[1] - p[1]) + (q[2] - p[2]) * (q[2] - p[2])

\* The ordered pairs (A, B) with B in A.connected_nodes.
AdjacencyPairs ==
    UNION {{<<a, b>> : b \in Range(nodes[a].connected_nodes)} : a \in DOMAIN nodes}

\* The consecutive pairs of a path, in order.
Hops(path) == [i \in 1..(Len(path) - 1) |-> <<path[i], path[i + 1]>>]

\* Every consecutive pair of the path is an adjacency of its first label.
ValidPath(path) == \A i \in DOMAIN Hops(path) : Hops(path)[i] \in AdjacencyPairs

\* Node X holds a Line made for the pair (X, Y) that leads on to Y.
Wired(X, Y) ==
    /\ X \in DOMAIN nodes
    /\ \E k \in DOMAIN nodes[X].successive :
         LET line == lines[LineKey(lines, nodes[X].successive[k])]
         IN  line.label = X \o Y /\ Y \in DOMAIN line.successive

-----------------------------------------------------------------------------
(* C1: on a connected topology, when Network.propagate returns from a fresh    *)
(* signal whose path has N >= 2 labels, each consecutive pair an adjacency,   *)
(* the path is empty, the latency is the sum of latency_generation() of the   *)
(* lines p[i]->p[i+1], and the noise is the sum of                            *)
(* 1e-9 * initial power * Euclidean distance(p[i], p[i+1]).                   *)
C1_PropagationTotals ==
    (/\ Finished /\ pc = "returned" /\ Fresh
     /\ connectState = "returned"
     /\ Len(sig0.path) >= 2
     /\ ValidPath(sig0.path))
    => LET hops == Hops(sig0.path)
       IN  /\ sig.path = <<>>
           /\ sig.latency =
                SumSeq([i \in DOMAIN hops |->
                          latency_generation(lines[hops[i][1] \o hops[i][2]])])
           /\ sig.noise_power =
                SumSeq([i \in DOMAIN hops |->
                          sig0.signal_power *
                          EuclideanDistance(nodes[hops[i][1]].position,
                                            nodes[hops[i][2]].position)])

-----------------------------------------------------------------------------
(* C2: after connect() every adjacency (A, B) has exactly one Line, stored    *)
(* under a key no other adjacency shares, of length the Euclidean distance    *)
(* of A and B, that A.successive maps to, and whose successive is exactly     *)
(* B -> node B; for labels of any length.                                     *)
C2_OneLinePerAdjacency ==
    connectState = "returned" =>
        \A ab \in AdjacencyPairs :
            LET key == ab[1] \o ab[2]
            IN  /\ key \in DOMAIN lines
                /\ \A cd \in AdjacencyPairs : cd # ab => cd[1] \o cd[2] # key
                /\ lines[key].length =
                     EuclideanDistance(nodes[ab[1]].position, nodes[ab[2]].position)
                /\ key \in DOMAIN nodes[ab[1]].successive
                /\ nodes[ab[1]].successive[key] = lines[key].id
                /\ DOMAIN lines[key].successive = {ab[2]}
                /\ lines[key].successive[ab[2]] = ab[2]

-----------------------------------------------------------------------------
(* C3: for start and end in Network.nodes, find_paths(start, end) returns     *)
(* exactly the simple paths from start to end of the adjacency graph.         *)

\* The simple paths from start to end, from their definition.
SimplePaths(start, end) ==
    {p \in BoundedSeq(DOMAIN nodes, Cardinality(DOMAIN nodes)) :
        /\ p # <<>>
        /\ p[1] = start
        /\ p[Len(p)] = end
        /\ Injective(p)
        /\ ValidPath(p)}

C3_FindPathsExact ==
    (/\ found.outcome # "none"
     /\ found.start \in DOMAIN nodes
     /\ found.end \in DOMAIN nodes)
    => /\ found.outcome = "returned"
       /\ Range(found.paths) = SimplePaths(found.start, found.end)

-----------------------------------------------------------------------------
(* C4: a propagation over a path with a consecutive pair (X, Y) for which X   *)
(* holds no wired line to Y ends by raising; it never returns normally.       *)
C4_UnwiredHopRaises ==
    (/\ Finished
     /\ \E i \in DOMAIN Hops(sig0.path) :
          ~Wired(Hops(sig0.path)[i][1], Hops(sig0.path)[i][2]))
    => pc = "raised"

\* The unwired pair comes after a hop that was made.
C4_Witness ==
    /\ Finished /\ pc = "raised"
    /\ Len(sig0.path) = 3
    /\ Wired(sig0.path[1], sig0.path[2])
    /\ ~Wired(sig0.path[2], sig0.path[3])
    /\ visits.line = 1
    /\ sig.path = <<sig0.path[3]>>

-----------------------------------------------------------------------------
(* C5: no Network object exists in which some node's connected_nodes names a  *)
(* label that is no node entry (the constructor rejects such descriptions).   *)
C5_NoDanglingNeighbour ==
    built => \A k \in DOMAIN nodes : Range(nodes[k].connected_nodes) \subseteq DOMAIN nodes

-----------------------------------------------------------------------------
(* C6: on every constructed Network, connected or not, find_paths never ends  *)
(* in an error, and returns the empty list when start or end is no node or    *)
(* end cannot be reached from start.                                          *)
C6_FindPathsTotal ==
    found.outcome # "none" =>
        /\ found.outcome = "returned"
        /\ (\/ found.start \notin DOMAIN nodes
            \/ found.end \notin DOMAIN nodes
            \/ SimplePaths(found.start, found.end) = {}) => found.paths = <<>>

-----------------------------------------------------------------------------
(* C7: worked example A(0,0), B(0,3), C(4,0), A<->B, B<->C, power 1.0, path   *)
(* [A,B,C].  As claimed: latency 3/v + 4/v (35 ns), noise 7e-9, power 1.0.    *)
(* As amended: the line B->C has length 5, so latency is 3/v + 5/v (40 ns)    *)
(* and noise is 8e-9.                                                         *)
RoundTripCase ==
    /\ Finished /\ pc = "returned"
    /\ connectState = "returned"
    /\ sig0 = Signal_information(1, <<"A", "B", "C">>)

C7_RoundTripAsClaimed ==
    RoundTripCase => /\ sig.latency = 35
                     /\ sig.noise_power = 7
                     /\ sig.signal_power = 1

C7_RoundTripAmended ==
    RoundTripCase => /\ lines["AB"].length = 3
                     /\ lines["BC"].length = 5
                     /\ sig.latency = 40
                     /\ sig.noise_power = 8
                     /\ sig.signal_power = 1
                     /\ sig.path = <<>>

C7_Witness == RoundTripCase /\ visits.line = 2

-----------------------------------------------------------------------------
(* C8: a propagation of a non-empty path whose first label is no key of       *)
(* Network.nodes ends by raising; it does not return the signal.              *)
C8_AbsentStartRaises ==
    (/\ Finished
     /\ sig0.path # <<>>
     /\ sig0.path[1] \notin DOMAIN nodes)
    => pc = "raised"

C8_Witness ==
    /\ Finished /\ pc = "raised"
    /\ sig0.path # <<>>
    /\ sig0.path[1] \notin DOMAIN nodes
    /\ nodes # EmptyDict
    /\ visits.node = 0

-----------------------------------------------------------------------------
(* C9: connect() called on a topology it has already connected changes        *)
(* nothing of the wiring: Network.lines (keys, Line objects, lengths), every  *)
(* Node.successive and every Line.successive stay as they were, and no Line   *)
(* is constructed.                                                            *)
C9_ReconnectIsNoOp ==
    [][(connectState = "returned" /\ reconnected')
         => (/\ lines' = lines
             /\ nodes' = nodes
             /\ nextId' = nextId
             /\ connectState' = "returned")]_vars

\* A second connect() has run on a network with lines wired.
C9_Witness ==
    /\ reconnected
    /\ connectState = "returned"
    /\ Cardinality(DOMAIN lines) >= 2
    /\ \E k \in DOMAIN nodes : nodes[k].successive # EmptyDict

-----------------------------------------------------------------------------
(* C10: a propagation of a path of exactly one label that is a node makes no  *)
(* line traversal: it returns with signal_power, noise_power and latency as   *)
(* they were before the call and with an empty path.                          *)
C10_SingleNodePath ==
    (/\ Finished
     /\ Len(sig0.path) = 1
     /\ sig0.path[1] \in DOMAIN nodes)
    => /\ pc = "returned"
       /\ visits.line = 0
       /\ sig.signal_power = sig0.signal_power
       /\ sig.noise_power = sig0.noise_power
       /\ sig.latency = sig0.latency
       /\ sig.path = <<>>

\* The call found accumulators that an earlier, failed propagation had raised.
C10_Witness ==
    /\ Finished /\ pc = "returned"
    /\ Len(sig0.path) = 1
    /\ sig0.path[1] \in DOMAIN nodes
    /\ sig0.noise_power > 0
    /\ sig.noise_power = sig0.noise_power
    /\ sig.path = <<>>

-----------------------------------------------------------------------------
(* C11: the list find_paths returns is in depth-first order, the neighbours   *)
(* of each node taken in the order of its connected_nodes: it equals, element *)
(* by element, the list of a reference preorder enumeration.  The reference   *)
(* is a function of the topology and of (start, end), so two calls with the   *)
(* same arguments return equal lists.                                         *)

\* The place of b in a.connected_nodes.
NeighbourIndex(a, b) ==
    CHOOSE i \in DOMAIN nodes[a].connected_nodes : nodes[a].connected_nodes[i] = b

\* Of two different simple paths with the same ends, p is enumerated first:
\* where they part, p takes the neighbour that comes earlier in the list.
EnumeratedBefore(p, q) ==
    /\ p # q
    /\ LET i == CHOOSE k \in 2..Len(p) :
                    /\ k <= Len(q)
                    /\ \A j \in 1..(k - 1) : p[j] = q[j]
                    /\ p[k] # q[k]
       IN  NeighbourIndex(p[i - 1], p[i]) < NeighbourIndex(p[i - 1], q[i])

\* The reference enumeration: the simple paths, each at the place given by
\* the number of simple paths enumerated before it.
ReferenceDFS(start, end) ==
    LET all == SimplePaths(start, end)
    IN  [i \in 1..Cardinality(all) |->
            CHOOSE p \in all :
                Cardinality({q \in all : EnumeratedBefore(q, p)}) = i - 1]

C11_DepthFirstOrder ==
    (/\ found.outcome = "returned"
     /\ found.start \in DOMAIN nodes
     /\ found.end \in DOMAIN nodes)
    => found.paths = ReferenceDFS(found.start, found.end)

\* Two paths were returned, the one through the earlier neighbour longer than
\* the one through the later neighbour.
C11_Witness ==
    /\ found.outcome = "returned"
    /\ Len(found.paths) = 2
    /\ Len(found.paths[1]) = 3
    /\ Len(found.paths[2]) = 2
    /\ found.paths = ReferenceDFS(found.start, found.end)

-----------------------------------------------------------------------------
(* C12: no step of Network.find_paths or of Network.propagate (Node.propagate *)
(* and Line.propagate included, whether the call goes on, returns or raises)  *)
(* changes the topology: Network.nodes with every Node's label, position,     *)
(* connected_nodes and successive, and Network.lines with every Line's label, *)
(* length and successive, are after the step what they were before it; so     *)
(* they are after any sequence of such calls.                                 *)
C12_TopologyReadOnly ==
    [][(FindPaths \/ NetworkPropagate \/ NodePropagate \/ LinePropagate)
         => (nodes' = nodes /\ lines' = lines)]_vars

\* After a find_paths call, a propagation over one of the paths it returned
\* has crossed two lines of the wired network.
C12_Witness ==
    /\ Finished
    /\ found.outcome = "returned"
    /\ sig0.path \in Range(found.paths)
    /\ visits.line = 2
    /\ visits.node = 3
    /\ \E k \in DOMAIN nodes : nodes[k].successive # EmptyDict

-----------------------------------------------------------------------------
(* C13: a signal that was constructed and is propagated over a connected      *)
(* topology has noise_power >= 0 and latency >= 0 in every state, before,     *)
(* during and after its propagation.                                          *)
C13_NonNegativeAccumulators ==
    (sig.live /\ connectState = "returned")
    => (sig.noise_power >= 0 /\ sig.latency >= 0)

-----------------------------------------------------------------------------
(* C14: Network.propagate on a signal whose path is empty returns, with the   *)
(* signal's signal_power, noise_power, latency and path as they were, and     *)
(* without a call of any Node.propagate or Line.propagate.                    *)
C14_EmptyPathIsNoOp ==
    (Finished /\ sig0.path = <<>>)
    => /\ pc = "returned"
       /\ sig = sig0
       /\ visits = NoVisits

\* The call was made on a signal that an earlier propagation over a line had
\* left with an empty path, on a network that has nodes.
C14_Witness ==
    /\ Finished /\ pc = "returned"
    /\ sig0.path = <<>>
    /\ sig0.latency > 0
    /\ sig = sig0
    /\ nodes # EmptyDict

-----------------------------------------------------------------------------
(* C15: for a label A that is a node, find_paths(A, A) returns the list with  *)
(* the one path [A], whatever A's connected_nodes are: A may lie on a cycle   *)
(* or list itself.                                                            *)
C15_TrivialPath ==
    (/\ found.outcome # "none"
     /\ found.start = found.end
     /\ found.start \in DOMAIN nodes)
    => /\ found.outcome = "returned"
       /\ found.paths = << <<found.start>> >>

\* A lists itself and lies on a cycle through another node.
C15_Witness ==
    /\ found.outcome = "returned"
    /\ found.start = found.end
    /\ found.start \in DOMAIN nodes
    /\ found.paths = << <<found.start>> >>
    /\ found.start \in Range(nodes[found.start].connected_nodes)
    /\ \E b \in DOMAIN nodes \ {found.start} :
          /\ b \in Range(nodes[found.start].connected_nodes)
          /\ found.start \in Range(nodes[b].connected_nodes)

-----------------------------------------------------------------------------
(* C16: in the propagation of a valid path p[0..N-1] over a connected         *)
(* topology the steps come in the order Node p[0], Line p[0]->p[1], Node      *)
(* p[1], ..., Node p[N-1].  Each Node.propagate removes exactly the head of   *)
(* signal.path, its own label, and only then forwards, to the line it holds   *)
(* for its label and the new head; each Line.propagate leaves signal.path as  *)
(* it is and forwards to the node its successive gives for the head; and at   *)
(* every step signal.path is a suffix of the original path.                   *)

\* A propagation of a valid path over a connected topology has begun.
ValidRun ==
    /\ sig0.live
    /\ pc \in {"node", "line", "returned", "raised"}
    /\ connectState = "returned"
    /\ sig0.path # <<>>
    /\ sig0.path[1] \in DOMAIN nodes
    /\ ValidPath(sig0.path)

\* The number of labels the propagation has removed so far.
Consumed == Len(sig0.path) - Len(sig.path)

\* Where the propagation stands: after k removals it has made k calls of
\* Node.propagate; it is in the node of the head p[k], with k lines crossed, or
\* in the line that p[k-1] holds for p[k-1] + p[k], with k - 1 lines crossed.
StepPosition ==
    /\ Consumed \in 0..Len(sig0.path)
    /\ sig.path = SubSeq(sig0.path, Consumed + 1, Len(sig0.path))
    /\ visits.node = Consumed
    /\ pc = "node" => /\ visits.line = Consumed
                      /\ cur = sig.path[1]
                      /\ nodes[cur].label = sig0.path[Consumed + 1]
    /\ pc = "line" => /\ visits.line = Consumed - 1
                      /\ LET from == sig0.path[Consumed]
                             key == from \o sig.path[1]
                         IN  /\ key \in DOMAIN nodes[from].successive
                             /\ lines[cur].id = nodes[from].successive[key]
                             /\ lines[cur].label = key
                             /\ sig.path[1] \in DOMAIN lines[cur].successive
                             /\ lines[cur].successive[sig.path[1]] = sig.path[1]
    /\ pc = "returned" => sig.path = <<>> /\ visits.line = Len(sig0.path) - 1
    /\ pc # "raised"

\* What one step does to signal.path and where it hands the signal on.
StepEffect ==
    /\ pc = "node" => /\ sig'.path = Tail(sig.path)
                      /\ IF sig'.path = <<>> THEN pc' = "returned" ELSE pc' = "line"
    /\ pc = "line" => /\ sig'.path = sig.path
                      /\ pc' = "node"
                      /\ cur' = sig.path[1]

C16_StrictStepOrder ==
    /\ [](ValidRun => StepPosition)
    /\ [][ValidRun => StepEffect]_vars

\* A valid path of three labels has been propagated to its end.
C16_Witness ==
    /\ ValidRun
    /\ pc = "returned"
    /\ Len(sig0.path) = 3
    /\ visits = [node |-> 3, line |-> 2]
    /\ sig.path = <<>>

-----------------------------------------------------------------------------
(* C17: propagation never modifies signal_power: from the call of             *)
(* Network.propagate on, through every step and after the call has returned   *)
(* or raised, over any topology and path, signal.signal_power is what it was  *)
(* before the call; and the noise each Line.propagate adds is                 *)
(* 1e-9 * that initial power * the line's length.                             *)
C17_PowerUntouched ==
    /\ []((sig0.live /\ pc \in {"node", "line", "returned", "raised"})
            => sig.signal_power = sig0.signal_power)
    /\ [][pc = "line" => sig'.noise_power - sig.noise_power
                            = sig0.signal_power * lines[cur].length]_vars

\* The call ended in an error after a line had added its noise.
C17_Witness ==
    /\ Finished /\ pc = "raised"
    /\ visits.line = 1
    /\ sig.noise_power # sig0.noise_power
    /\ sig.signal_power = sig0.signal_power

-----------------------------------------------------------------------------
(* C18: every Network.propagate call ends, by returning or by raising, also   *)
(* on topologies with cycles and on paths that repeat a node: every           *)
(* Node.propagate step makes signal.path strictly shorter, at most len(path)  *)
(* calls of Node.propagate are made and, where a line is visited at all, at   *)
(* most len(path) - 1 calls of Line.propagate.                                *)
C18_PropagateTerminates ==
    /\ (pc \in {"node", "line"}) ~> (pc \in {"returned", "raised"})
    /\ [][pc = "node" => Len(sig'.path) < Len(sig.path)]_vars
    /\ []((sig0.live /\ pc \in {"node", "line", "returned", "raised"})
            => /\ visits.node <= Len(sig0.path)
               /\ visits.line = 0 \/ visits.line <= Len(sig0.path) - 1)

\* A path that comes back to its first node has been propagated round a cycle.
C18_Witness ==
    /\ Finished /\ pc = "returned"
    /\ Len(sig0.path) = 3
    /\ sig0.path[1] = sig0.path[3]
    /\ sig0.path[1] # sig0.path[2]
    /\ visits = [node |-> 3, line |-> 2]

-----------------------------------------------------------------------------
(* C19: on a topology where connect() has completed, a signal built on a path *)
(* that find_paths returned propagates without error: the call returns, with  *)
(* signal.path empty, and in each hop the signal is in the line that the node *)
(* holds for its label and the next label of the path, a line whose           *)
(* successive gives for that next label the node it then forwards to.         *)

\* A propagation of a path that find_paths returned, over a connected topology.
FoundRun ==
    /\ sig0.live
    /\ pc \in {"node", "line", "returned", "raised"}
    /\ connectState = "returned"
    /\ found.outcome = "returned"
    /\ sig0.path \in Range(found.paths)

C19_FoundPathsPropagate ==
    /\ [](FoundRun =>
            /\ pc # "raised"
            /\ pc = "returned" => /\ sig.path = <<>>
                                  /\ visits.node = Len(sig0.path)
                                  /\ visits.line = Len(sig0.path) - 1
            /\ pc = "line" =>
                  LET from == sig0.path[visits.node]
                      next == sig0.path[visits.node + 1]
                  IN  /\ lines[cur].id = nodes[from].successive[from \o next]
                      /\ next \in DOMAIN lines[cur].successive
                      /\ lines[cur].successive[next] = next)
    /\ [][(FoundRun /\ pc = "line")
            => (pc' = "node" /\ cur' = sig0.path[visits.node + 1])]_vars
    /\ (FoundRun /\ pc \in {"node", "line"}) ~> (pc = "returned" /\ sig.path = <<>>)

\* The path went over a line that two adjacencies share.
C19_Witness ==
    /\ FoundRun
    /\ pc = "returned"
    /\ sig.path = <<>>
    /\ Len(sig0.path) >= 2
    /\ visits.line = Len(sig0.path) - 1
    /\ LET key == sig0.path[1] \o sig0.path[2]
       IN  Cardinality(DOMAIN lines[key].successive) = 2

-----------------------------------------------------------------------------
(* C20: a Signal_information has a list of its own as path, so no step of a   *)
(* propagation changes a list the caller passed to the constructor, such as a *)
(* path inside the result of find_paths; and what a propagation of a signal   *)
(* built on such a list over a connected topology returns is given by that    *)
(* list, the power and the lines alone, so any number of signals built on     *)
(* the same list end with the same path, latency and noise_power.             *)
C20_PrivatePathCopy ==
    /\ [][(NetworkPropagate \/ NodePropagate \/ LinePropagate) => found' = found]_vars
    /\ []((/\ Finished
            /\ connectState = "returned"
            /\ passed # 0
            /\ sig0 = Signal_information(sig0.signal_power, found.paths[passed]))
           => LET hops == Hops(found.paths[passed])
              IN  /\ pc = "returned"
                  /\ sig.path = <<>>
                  /\ sig.signal_power = sig0.signal_power
                  /\ sig.latency =
                       SumSeq([i \in DOMAIN hops |->
                                 latency_generation(lines[hops[i][1] \o hops[i][2]])])
                  /\ sig.noise_power =
                       SumSeq([i \in DOMAIN hops |->
                                 noise_generation(lines[hops[i][1] \o hops[i][2]],
                                                  sig0.signal_power)]))

\* A signal built on a path of three labels of a find_paths result has been
\* propagated to its end, and the result still holds that path.
C20_Witness ==
    /\ Finished /\ pc = "returned"
    /\ passed # 0
    /\ sig.path = <<>>
    /\ sig0.path = found.paths[passed]
    /\ Len(found.paths[passed]) = 3
    /\ visits.node = 3

====
